---- MODULE Spec2Model ----
(***************************************************************************)
(* Deployment pipeline, Event Logger (DeploymentLogger), Broadcast Hub     *)
(* (deployment-logs route: sendLogUpdate, storeLogInDeployment,            *)
(* sendCompletionEvent, the SSE GET handler) and the pending-log sweeper   *)
(* of WebHash-eth/pro, as a state machine.                                 *)
(*                                                                         *)
(* Every await on I/O is a step boundary: a store operation is issued in   *)
(* one step and executed by the store in a later one, a timer is armed in  *)
(* one step and fires in a later one.  Code between two awaits is atomic   *)
(* (single-threaded event loop).                                           *)
(***************************************************************************)
EXTENDS Integers, Sequences, FiniteSets, TLC

(***************************************************************************)
(* Bounds of the model.                                                    *)
(***************************************************************************)
MaxEvents == 2      \* logger calls made by the generic caller of one job
MaxClock == 2       \* the millisecond clock advances at most this far
MaxConns == 2       \* SSE connections opened over a run
MaxSweeps == 2      \* sweeper passes that can be in progress at once
MaxTimerFires == 1   \* times the flush timer of one logger fires
MaxBeats == 1       \* keepalive comments written to one connection
MaxPublishes == 102
MaxLimit == 2
MaxPosts == 1
MaxPatches == 1
MaxSweepFails == 1  \* failed store operations of the sweeper on one job       \* keepalive comments written to one connection

(***************************************************************************)
(* Program constants.                                                      *)
(***************************************************************************)
batchSize == 10         \* DeploymentLogger.batchSize
QueueCap == 100         \* logQueue cap in sendLogUpdate
UPLOAD_TIMEOUT_MS == 15 * 60 * 1000
SliceKeep == 1000       \* $slice: -1000 in flushLogBatch

Jobs == {"deploy_1"}
\* deploy_<Date.now()>_<random>: a second id that contains the first
JobIds == Jobs \cup {"deploy_12"}
Conns == 1..MaxConns
SweepIds == 1..MaxSweeps

LogTypes == {"info", "error", "success"}
\* message classes: what the substring tests of storeLogInDeployment see
MsgPlain == "plain"
MsgCompleted == "completed successfully"
MsgFailed == "failed"

VARIABLES
  now,                   \* Date.now(), milliseconds
  deployments,           \* the 'deployments' collection, by deploymentId
  logBatch,              \* DeploymentLogger.logBatch
  batchTimeout,          \* DeploymentLogger.batchTimeout is armed
  pendingLogs,           \* DeploymentLogger.pendingLogs: batch writes
  logQueue,              \* route.ts logQueue
  queueKeys,             \* keys of the logQueue Map in insertion order
  activeConnections,     \* route.ts activeConnections
  pendingDeploymentLogs, \* route.ts pendingDeploymentLogs
  storeOps,              \* storeLogInDeployment calls in progress
  sweeps,                \* sweeper passes in progress
  closeTimers,           \* armed setTimeout of sendCompletionEvent
  conns,                 \* SSE stream controllers
  pc,                    \* position of the pipeline (caller of the logger)
  tempDir,               \* the job's temporary directory exists
  response,              \* what POST /api/deploy has answered
  nextSeq,               \* number of the next event of the job
  outcome,               \* what the background task has gone through
  hist                   \* history: what has been observed so far

vars == <<now, deployments, logBatch, batchTimeout, pendingLogs, logQueue,
          queueKeys,
          activeConnections, pendingDeploymentLogs, storeOps, sweeps,
          closeTimers, conns, pc, tempDir, response, outcome, nextSeq, hist>>

loggerVars == <<logBatch, batchTimeout, pendingLogs>>
jobVars == <<tempDir, response, outcome>>
hubVars == <<logQueue, queueKeys, activeConnections, pendingDeploymentLogs, storeOps,
             closeTimers, conns>>

(***************************************************************************)
(* Helpers.                                                                *)
(***************************************************************************)
Range(s) == {s[i] : i \in DOMAIN s}

Min(a, b) == IF a <= b THEN a ELSE b

LastN(s, n) == IF Len(s) <= n THEN s ELSE SubSeq(s, Len(s) - n + 1, Len(s))

\* Date.prototype.toISOString and new Date(isoString): the string carries
\* the millisecond value
toISOString(d) == [iso |-> d]
NewDate(s) == s.iso

\* the documents of one deploymentId: the one that findOne returns, and how
\* many the collection holds
NoDeployment == [exists |-> FALSE, status |-> "none", cid |-> "none",
                 error |-> "none", logs |-> <<>>, copies |-> 0]

IdleSweep == [st |-> "idle", job |-> "none", arr |-> <<>>, idx |-> 0, seen |-> {},
              live |-> FALSE]

\* the log viewer at the other end of a connection: the flags of its effect,
\* the frames it has handled, what it passed to onLogsComplete, its timers
NoClient == [handled |-> 0, hasReceivedLogs |-> FALSE,
             hasReceivedCompletionEvent |-> FALSE, reports |-> <<>>,
             closeTimer |-> FALSE, closed |-> FALSE,
             processingTimeout |-> "none", fetch |-> "none"]

FreeConn == [st |-> "free", job |-> "none", queueKey |-> "none",
             frames |-> <<>>,
             replay |-> FALSE, attach |-> 0, late |-> FALSE,
             keepalive |-> FALSE, beats |-> 0, writeFailed |-> FALSE,
             client |-> NoClient]

\* failed: the first stage that failed; terminalSeq: number of the
\* 'Deployment completed successfully' event; cleanupError: rmSync threw
NoOutcome == [failed |-> "none", terminalSeq |-> 0, cleanupError |-> FALSE]

NoHist == [timerFires |-> 0, writeFailedAt |-> 0, waited |-> 0, waitedOn |-> FALSE, everPending |-> {},
           swept |-> {}, completionSent |-> FALSE, terminalTo |-> {},
           patches |-> 0, sweepFails |-> 0,
           lastPatch |-> [userId |-> "none", status |-> "none", code |-> 0]]

(***************************************************************************)
(* Initial state: the server has started, nothing has been submitted.      *)
(***************************************************************************)
Init ==
  /\ now = 0
  /\ deployments = [j \in JobIds |-> NoDeployment]
  /\ logBatch = [j \in JobIds |-> <<>>]
  /\ batchTimeout = [j \in JobIds |-> FALSE]
  /\ pendingLogs = [j \in JobIds |-> {}]
  /\ logQueue = [j \in JobIds |-> <<>>]
  /\ queueKeys = <<>>
  /\ activeConnections = [j \in JobIds |-> {}]
  /\ pendingDeploymentLogs = [j \in JobIds |-> <<>>]
  /\ storeOps = [j \in JobIds |-> {}]
  /\ sweeps = [p \in SweepIds |-> IdleSweep]
  /\ closeTimers = [j \in JobIds |-> 0]
  /\ conns = [c \in Conns |-> FreeConn]
  /\ pc = [j \in JobIds |-> "idle"]
  /\ tempDir = [j \in JobIds |-> FALSE]
  /\ response = [j \in JobIds |-> "none"]
  /\ outcome = [j \in JobIds |-> NoOutcome]
  /\ nextSeq = [j \in JobIds |-> 1]
  /\ hist = [j \in JobIds |-> NoHist]

(***************************************************************************)
(* The store: the update operators of the 'deployments' collection.        *)
(***************************************************************************)
\* { type, message, timestamp: new Date(log.timestamp) } of a hub log
EmbeddedLog(log) == [seq |-> log.seq, type |-> log.type, msg |-> log.msg,
                     ts |-> NewDate(log.ts)]

\* updateOne({_id}, {$push: {logs: entry}})
PushLog(d, entry) == [d EXCEPT !.logs = Append(@, entry)]

\* $slice: 1000, which keeps the oldest entries
PushEachKeepsFirst(d, batch) ==
  IF d.exists
  THEN [d EXCEPT !.logs = SubSeq(@ \o batch, 1, Min(Len(@ \o batch), SliceKeep))]
  ELSE d

\* updateOne({deploymentId}, {$push: {logs: {$each: batch, $slice: -1000}}})
PushEachSlice(d, batch) ==
  IF d.exists THEN [d EXCEPT !.logs = LastN(@ \o batch, SliceKeep)] ELSE d

\* the 'deploymentlogs' collection, by deploymentId: the logger, the hub and
\* the sweeper write to the logs array of the 'deployments' collection, and
\* nothing inserts into this one
deploymentlogs == [j \in JobIds |-> <<>>]

\* .sort({ timestamp: 1 })
RECURSIVE SortByTimestamp(_)
SortByTimestamp(logs) ==
  IF logs = <<>> THEN <<>>
  ELSE LET i == CHOOSE i \in DOMAIN logs :
                  /\ \A k \in DOMAIN logs : logs[i].ts <= logs[k].ts
                  /\ \A k \in 1..(i - 1) : logs[k].ts # logs[i].ts
       IN <<logs[i]>> \o
          SortByTimestamp(SubSeq(logs, 1, i - 1) \o SubSeq(logs, i + 1, Len(logs)))

\* GET /api/deployment-logs/fetch?deploymentId&page&limit: 404 without a
\* record, else find({deploymentId}).sort({timestamp: 1}).skip((page - 1) *
\* limit).limit(limit) on 'deploymentlogs'
FetchLogs(j, page, limit) ==
  IF ~deployments[j].exists THEN <<>>
  ELSE LET sorted == SortByTimestamp(deploymentlogs[j])
           skip == (page - 1) * limit
           last == IF skip + limit < Len(sorted) THEN skip + limit ELSE Len(sorted)
       IN SubSeq(sorted, skip + 1, last)

(***************************************************************************)
(* Broadcast Hub: sendLogUpdate, sendCompletionEvent.                      *)
(***************************************************************************)
\* deploymentId.toLowerCase(); generated ids are lower case already
toLowerCase(id) == id

\* controller.enqueue(frame): throws on a stream that is not open, and
\* every caller catches that; writeFailed notes a failed write to a stream
\* whose client has gone
Enqueue(cn, frame) ==
  CASE cn.st = "open" -> [cn EXCEPT !.frames = Append(@, frame)]
    [] cn.st = "broken" -> [cn EXCEPT !.writeFailed = TRUE]
    [] OTHER -> cn

DataFrame(log) == [kind |-> "log", seq |-> log.seq, type |-> log.type,
                   msg |-> log.msg, ts |-> log.ts]

\* the characters of an id
IdChars(id) ==
  CASE id = "deploy_1" -> <<"d", "e", "p", "l", "o", "y", "_", "1">>
    [] id = "deploy_12" -> <<"d", "e", "p", "l", "o", "y", "_", "1", "2">>
    [] OTHER -> <<>>

\* a.includes(b)
includes(a, b) ==
  LET A == IdChars(a)
      B == IdChars(b)
  IN \E i \in 0..(Len(A) - Len(B)) : SubSeq(A, i + 1, i + Len(B)) = B

\* logQueue.set(key, []) when the Map has no such key: a new key goes to the
\* end of the Map's iteration order
MapSet(keys, key) ==
  IF \E i \in DOMAIN keys : keys[i] = key THEN keys ELSE Append(keys, key)

\* Array.from(logQueue.keys()).find(...): the first key that equals the
\* subscriber's id, is contained in it or contains it
FindQueueKey(keys, n) ==
  LET hits == {i \in DOMAIN keys :
                 \/ toLowerCase(keys[i]) = n
                 \/ includes(n, toLowerCase(keys[i]))
                 \/ includes(toLowerCase(keys[i]), n)}
  IN IF hits = {} THEN "none"
     ELSE keys[CHOOSE i \in hits : \A h \in hits : i <= h]

\* logQueue push that never shifts
QueuePushKeepsAll(q, log) ==
  Append(q, log)

\* logQueue push, then shift when longer than 100
QueuePush(q, log) ==
  LET q2 == Append(q, log) IN IF Len(q2) > QueueCap THEN Tail(q2) ELSE q2

\* the substring tests of storeLogInDeployment
IsCompletionLog(log) ==
  \/ log.type = "success" /\ log.msg = MsgCompleted
  \/ log.type = "error" /\ log.msg = MsgFailed

\* connections after sendCompletionEvent(deploymentId, isSuccess)
CompletionConns(cs, j, isSuccess) ==
  LET ev == [kind |-> "completion", seq |-> 0,
             type |-> IF isSuccess THEN "completion_success"
                      ELSE "completion_error",
             msg |-> IF isSuccess THEN MsgCompleted ELSE MsgFailed,
             ts |-> toISOString(now)]
  IN [c \in Conns |->
        IF c \in activeConnections[toLowerCase(j)]
        THEN Enqueue(cs[c], ev) ELSE cs[c]]

\* sendCompletionEvent arms its close timer only when the job has
\* connections
CompletionArms(j) == activeConnections[toLowerCase(j)] # {}

\* a fan-out whose loop ends at the first write that throws
sendLogUpdateStopsAtThrow(j, log) ==
  LET n == toLowerCase(j) IN
  /\ logQueue' = [logQueue EXCEPT ![n] = QueuePush(@, log)]
  /\ queueKeys' = MapSet(queueKeys, n)
  /\ storeOps' = [storeOps EXCEPT ![j] = @ \cup {[log |-> log, st |-> "lookup",
                                 early |-> ~deployments[j].exists]}]
  /\ conns' = [c \in Conns |->
                 IF /\ c \in activeConnections[n]
                    /\ \A b \in activeConnections[n] :
                         b < c => conns[b].st # "broken"
                 THEN Enqueue(conns[c], DataFrame(log)) ELSE conns[c]]
  /\ UNCHANGED <<activeConnections, pendingDeploymentLogs, closeTimers>>

\* sendLogUpdate(deploymentId, log): queue, start storeLogInDeployment,
\* fan out to the connections of the job; early notes that the job had no
\* record when the event was published
sendLogUpdate(j, log) ==
  LET n == toLowerCase(j) IN
  /\ logQueue' = [logQueue EXCEPT ![n] = QueuePush(@, log)]
  /\ queueKeys' = MapSet(queueKeys, n)
  /\ storeOps' = [storeOps EXCEPT ![j] = @ \cup {[log |-> log, st |-> "lookup",
                                 early |-> ~deployments[j].exists]}]
  /\ conns' = [c \in Conns |->
                 IF c \in activeConnections[n]
                 THEN Enqueue(conns[c], DataFrame(log)) ELSE conns[c]]
  /\ UNCHANGED <<activeConnections, pendingDeploymentLogs, closeTimers>>

(***************************************************************************)
(* Event Logger: DeploymentLogger.                                         *)
(***************************************************************************)
\* flushLogBatch on the logger state L = [logBatch, batchTimeout, pendingLogs]
\* a flush that leaves the timer as it was
flushLogBatchKeepsTimer(L) ==
  IF L.logBatch = <<>> THEN L
  ELSE [logBatch |-> <<>>, batchTimeout |-> L.batchTimeout,
        pendingLogs |-> L.pendingLogs \cup
                          {[logs |-> L.logBatch, settled |-> FALSE]}]

flushLogBatch(L) ==
  IF L.logBatch = <<>> THEN L
  ELSE [logBatch |-> <<>>, batchTimeout |-> FALSE,
        pendingLogs |-> L.pendingLogs \cup
                          {[logs |-> L.logBatch, settled |-> FALSE]}]

\* addLogToBatch
addLogToBatch(L, log) ==
  LET L2 == [L EXCEPT !.logBatch = Append(@, log)] IN
  IF Len(L2.logBatch) >= batchSize THEN flushLogBatch(L2)
  ELSE IF ~L2.batchTimeout THEN [L2 EXCEPT !.batchTimeout = TRUE]
  ELSE L2

LoggerOf(j) == [logBatch |-> logBatch[j], batchTimeout |-> batchTimeout[j],
                pendingLogs |-> pendingLogs[j]]

SetLogger(j, L) ==
  /\ logBatch' = [logBatch EXCEPT ![j] = L.logBatch]
  /\ batchTimeout' = [batchTimeout EXCEPT ![j] = L.batchTimeout]
  /\ pendingLogs' = [pendingLogs EXCEPT ![j] = L.pendingLogs]

\* logger.info / logger.error / logger.success: timestamp, sendLogUpdate,
\* addLogToBatch
LoggerLog(j, type, msg) ==
  LET log == [seq |-> nextSeq[j], type |-> type, msg |-> msg, ts |-> now] IN
  /\ sendLogUpdate(j, [log EXCEPT !.ts = toISOString(log.ts)])
  /\ SetLogger(j, addLogToBatch(LoggerOf(j), log))
  /\ nextSeq' = [nextSeq EXCEPT ![j] = @ + 1]
  /\ hist' = [hist EXCEPT ![j].terminalTo =
                IF IsCompletionLog(log) /\ ~hist[j].completionSent
                THEN @ \cup activeConnections[toLowerCase(j)] ELSE @]

info(j, msg) == LoggerLog(j, "info", msg)
error(j, msg) == LoggerLog(j, "error", msg)
success(j, msg) == LoggerLog(j, "success", msg)

\* the setTimeout of addLogToBatch fires
FlushTimer(j) ==
  /\ batchTimeout[j]
  /\ SetLogger(j, flushLogBatch(LoggerOf(j)))
  /\ hist' = [hist EXCEPT ![j].timerFires = @ + 1]
  /\ UNCHANGED <<now, deployments, hubVars, sweeps, pc, nextSeq, jobVars>>

\* the store executes the updateOne of one batch and its promise settles;
\* pendingLogs keeps the promises that have not settled, the only ones
\* Promise.all waits for
BatchWriteOp(j, op) ==
  /\ op \in pendingLogs[j]
  /\ ~op.settled
  /\ deployments' = [deployments EXCEPT ![j] = PushEachSlice(@, op.logs)]
  /\ pendingLogs' = [pendingLogs EXCEPT ![j] = @ \ {op}]
  /\ UNCHANGED <<now, logBatch, batchTimeout, hubVars, sweeps, pc, nextSeq,
                 hist, jobVars>>

BatchWrite(j) == \E op \in pendingLogs[j] : BatchWriteOp(j, op)

\* connectToDatabase or updateOne throws: the catch inside the write logs
\* to the console, so the promise resolves all the same and nothing is
\* stored
BatchWriteFailsOp(j, op) ==
  /\ op \in pendingLogs[j]
  /\ ~op.settled
  /\ pendingLogs' = [pendingLogs EXCEPT ![j] = @ \ {op}]
  /\ hist' = [hist EXCEPT ![j].writeFailedAt = nextSeq[j] - 1]
  /\ UNCHANGED <<now, deployments, logBatch, batchTimeout, hubVars, sweeps,
                 pc, nextSeq, jobVars>>

\* a write without its catch: the promise of the batch rejects
BatchWriteRejects(j) ==
  \E op \in pendingLogs[j] :
    /\ ~op.settled
    /\ pendingLogs' = [pendingLogs EXCEPT
                         ![j] = (@ \ {op}) \cup {[op EXCEPT !.settled = TRUE]}]
    /\ hist' = [hist EXCEPT ![j].writeFailedAt = nextSeq[j] - 1]
    /\ UNCHANGED <<now, deployments, logBatch, batchTimeout, hubVars, sweeps,
                   pc, nextSeq, jobVars>>

BatchWriteFails(j) == \E op \in pendingLogs[j] : BatchWriteFailsOp(j, op)

\* waitForPendingLogs, up to its await of Promise.all
WaitCall(j, from, to) ==
  /\ pc[j] = from
  /\ SetLogger(j, flushLogBatch(LoggerOf(j)))
  /\ pc' = [pc EXCEPT ![j] = to]
  /\ UNCHANGED <<now, deployments, hubVars, sweeps, nextSeq, hist, jobVars>>

\* waitForPendingLogs returns: every promise of pendingLogs has settled.
\* A promise that resolved has left the set; Promise.all raises to the
\* caller when one of them rejected
WaitReturn(j, from, to) ==
  /\ pc[j] = from
  /\ \A op \in pendingLogs[j] : op.settled
  /\ pendingLogs' = [pendingLogs EXCEPT ![j] = {}]
  /\ pc' = [pc EXCEPT ![j] = IF pendingLogs[j] = {} THEN to ELSE "raised"]
  /\ hist' = [hist EXCEPT ![j].waited = nextSeq[j] - 1,
                           ![j].waitedOn = deployments[j].exists]
  /\ UNCHANGED <<now, deployments, logBatch, batchTimeout, hubVars, sweeps,
                 nextSeq, jobVars>>

(***************************************************************************)
(* storeLogInDeployment, started by sendLogUpdate for every log.           *)
(***************************************************************************)
\* pendingDeploymentLogs.get(id).push(log): the array is shared with every
\* sweeper pass that took it from the map and has not been detached
PendingPush(j, log) ==
  /\ pendingDeploymentLogs' = [pendingDeploymentLogs EXCEPT ![j] = Append(@, log)]
  /\ sweeps' = [p \in SweepIds |->
                  IF sweeps[p].job = j /\ sweeps[p].live
                  THEN [sweeps[p] EXCEPT !.arr = Append(@, log)]
                  ELSE sweeps[p]]

\* the store answers the findOne.  No record: the call goes on to the
\* pending queue.  Record found: updateOne pushes the log, and a completion
\* log triggers sendCompletionEvent.
StoreLookupOp(j, op) ==
  /\ op \in storeOps[j]
  /\ op.st = "lookup"
  /\ IF ~deployments[j].exists
     THEN /\ storeOps' = [storeOps EXCEPT
                            ![j] = (@ \ {op}) \cup {[op EXCEPT !.st = "null"]}]
          /\ UNCHANGED <<deployments, conns, closeTimers, hist>>
     ELSE /\ storeOps' = [storeOps EXCEPT ![j] = @ \ {op}]
          /\ deployments' = [deployments EXCEPT
                               ![j] = PushLog(@, EmbeddedLog(op.log))]
          /\ IF IsCompletionLog(op.log)
             THEN /\ conns' = CompletionConns(conns, j, op.log.type = "success")
                  /\ closeTimers' = [closeTimers EXCEPT
                       ![j] = IF CompletionArms(j) THEN @ + 1 ELSE @]
                  /\ hist' = [hist EXCEPT ![j].completionSent =
                                @ \/ CompletionArms(j)]
             ELSE UNCHANGED <<conns, closeTimers, hist>>
  /\ UNCHANGED <<now, loggerVars, logQueue, queueKeys, activeConnections,
                 pendingDeploymentLogs, sweeps, pc, nextSeq, jobVars>>

StoreLookup(j) == \E op \in storeOps[j] : StoreLookupOp(j, op)

\* the call that found no record adds its log to pendingDeploymentLogs
StorePendingOp(j, op) ==
  /\ op \in storeOps[j]
  /\ op.st = "null"
  /\ storeOps' = [storeOps EXCEPT ![j] = @ \ {op}]
  /\ PendingPush(j, op.log)
  /\ hist' = [hist EXCEPT ![j].everPending = @ \cup {op.log.seq}]
  /\ UNCHANGED <<now, deployments, loggerVars, logQueue, queueKeys, activeConnections,
                 closeTimers, conns, pc, nextSeq, jobVars>>

StorePending(j) == \E op \in storeOps[j] : StorePendingOp(j, op)

\* the setTimeout of sendCompletionEvent fires: close and forget every
\* connection of the job
CloseFire(j) ==
  LET n == toLowerCase(j) IN
  /\ closeTimers[j] > 0
  /\ closeTimers' = [closeTimers EXCEPT ![j] = @ - 1]
  /\ conns' = [c \in Conns |->
                 IF c \in activeConnections[n] /\ conns[c].st = "open"
                 THEN [conns[c] EXCEPT !.st = "closed"] ELSE conns[c]]
  /\ activeConnections' = [activeConnections EXCEPT ![n] = {}]
  /\ UNCHANGED <<now, deployments, loggerVars, logQueue, queueKeys,
                 pendingDeploymentLogs, storeOps, sweeps, pc, nextSeq, hist, jobVars>>

(***************************************************************************)
(* The SSE GET handler.                                                    *)
(***************************************************************************)
\* ReadableStream.start: register the controller, send the initial
\* message, arm the replay timer when the job has queued logs
Subscribe(c, j) ==
  LET n == toLowerCase(j)
      initialMessage == [kind |-> "initial", seq |-> 0, type |-> "info",
                         msg |-> MsgPlain, ts |-> toISOString(now)]
      queueKey == FindQueueKey(queueKeys, n)
  IN
  /\ conns[c].st = "free"
  /\ \A b \in Conns : b < c => conns[b].st # "free"
  /\ activeConnections' = [activeConnections EXCEPT ![n] = @ \cup {c}]
  /\ conns' = [conns EXCEPT ![c] =
                 [st |-> "open", job |-> n, queueKey |-> queueKey,
                  frames |-> <<initialMessage>>,
                  replay |-> queueKey # "none" /\ Len(logQueue[queueKey]) > 0,
                  attach |-> nextSeq[j] - 1,
                  late |-> hist[j].completionSent,
                  keepalive |-> TRUE, beats |-> 0, writeFailed |-> FALSE,
                  client |-> [NoClient EXCEPT !.processingTimeout = "armed"]]]
  /\ UNCHANGED <<now, deployments, loggerVars, logQueue, queueKeys,
                 pendingDeploymentLogs, storeOps, sweeps, closeTimers, pc,
                 nextSeq, hist, jobVars>>

RECURSIVE EnqueueAll(_, _)
EnqueueAll(cn, logs) ==
  IF logs = <<>> THEN cn
  ELSE EnqueueAll(Enqueue(cn, DataFrame(Head(logs))), Tail(logs))

\* the replay timer fires: send a copy, as it is now, of the queue that the
\* key lookup found
ReplayFire(c) ==
  /\ conns[c].replay
  /\ conns' = [conns EXCEPT
                 ![c] = [EnqueueAll(@, logQueue[@.queueKey]) EXCEPT !.replay = FALSE]]
  /\ UNCHANGED <<now, deployments, loggerVars, logQueue, queueKeys, activeConnections,
                 pendingDeploymentLogs, storeOps, sweeps, closeTimers, pc,
                 nextSeq, hist, jobVars>>

\* an 'abort' listener that drops the whole set of the job
AbortClearsAll(c) ==
  /\ conns[c].st \in {"open", "broken"}
  /\ conns' = [conns EXCEPT ![c].st = "aborted", ![c].keepalive = FALSE]
  /\ activeConnections' = [activeConnections EXCEPT ![conns[c].job] = {}]
  /\ UNCHANGED <<now, deployments, loggerVars, logQueue, queueKeys,
                 pendingDeploymentLogs, storeOps, sweeps, closeTimers, pc,
                 nextSeq, hist, jobVars>>

\* request.signal 'abort': the client went away
Abort(c) ==
  /\ conns[c].st \in {"open", "broken"}
  /\ conns' = [conns EXCEPT ![c].st = "aborted", ![c].keepalive = FALSE]
  /\ activeConnections' = [activeConnections EXCEPT ![conns[c].job] = @ \ {c}]
  /\ UNCHANGED <<now, deployments, loggerVars, logQueue, queueKeys,
                 pendingDeploymentLogs, storeOps, sweeps, closeTimers, pc,
                 nextSeq, hist, jobVars>>

\* the client has gone and its stream is cancelled, the 'abort' listener
\* has not run: from now on controller.enqueue throws
Break(c) ==
  /\ conns[c].st = "open"
  /\ conns' = [conns EXCEPT ![c].st = "broken"]
  /\ UNCHANGED <<now, deployments, loggerVars, logQueue, queueKeys, activeConnections,
                 pendingDeploymentLogs, storeOps, sweeps, closeTimers, pc,
                 nextSeq, hist, jobVars>>

\* the keepalive setInterval callback: a comment line, which is no event;
\* when the write throws the catch clears the interval and nothing else
Keepalive(c) ==
  /\ conns[c].keepalive
  /\ IF conns[c].st = "open"
     THEN /\ conns[c].beats < MaxBeats
          /\ conns' = [conns EXCEPT ![c].beats = @ + 1]
     ELSE conns' = [conns EXCEPT
                      ![c] = [Enqueue(@, <<>>) EXCEPT !.keepalive = FALSE]]
  /\ UNCHANGED <<now, deployments, loggerVars, logQueue, queueKeys, activeConnections,
                 pendingDeploymentLogs, storeOps, sweeps, closeTimers, pc,
                 nextSeq, hist, jobVars>>

(***************************************************************************)
(* The sweeper: the setInterval callback.  A pass that is still awaiting   *)
(* the store does not stop the next tick from starting another pass.       *)
(***************************************************************************)
\* where a pass goes when it is done with an entry: to an entry of the map
\* that it has not visited and that holds events, or to its end
SweepAdvance(sw, pending) ==
  LET rest == {k \in JobIds : k \notin sw.seen /\ Len(pending[k]) > 0} IN
  IF rest = {} THEN {IdleSweep}
  ELSE {[st |-> "find", job |-> k, arr |-> pending[k], idx |-> 1,
         seen |-> sw.seen \cup {k}, live |-> TRUE] : k \in rest}

SweepStart(p, j) ==
  /\ sweeps[p].st = "idle"
  /\ \A q \in SweepIds : q < p => sweeps[q].st # "idle"
  /\ Len(pendingDeploymentLogs[j]) > 0
  /\ sweeps' = [sweeps EXCEPT ![p] =
                  [st |-> "find", job |-> j, arr |-> pendingDeploymentLogs[j],
                   idx |-> 1, seen |-> {j}, live |-> TRUE]]
  /\ UNCHANGED <<now, deployments, loggerVars, hubVars, pc, nextSeq, hist, jobVars>>

\* the store answers the pass's findOne
SweepFind(p) ==
  /\ sweeps[p].st = "find"
  /\ IF deployments[sweeps[p].job].exists
     THEN sweeps' = [sweeps EXCEPT ![p].st = "push"]
     ELSE \E nxt \in SweepAdvance(sweeps[p], pendingDeploymentLogs) :
            sweeps' = [sweeps EXCEPT ![p] = nxt]
  /\ UNCHANGED <<now, deployments, loggerVars, hubVars, pc, nextSeq, hist, jobVars>>

\* one updateOne of the pass's loop over the array
SweepPush(p) ==
  LET sw == sweeps[p] IN
  /\ sw.st = "push"
  /\ sw.idx <= Len(sw.arr)
  /\ deployments' = [deployments EXCEPT
                       ![sw.job] = PushLog(@, EmbeddedLog(sw.arr[sw.idx]))]
  /\ sweeps' = [sweeps EXCEPT ![p].idx = @ + 1]
  /\ hist' = [hist EXCEPT ![sw.job].swept = @ \cup {sw.arr[sw.idx].seq}]
  /\ UNCHANGED <<now, loggerVars, hubVars, pc, nextSeq, jobVars>>

\* the loop is over: pendingDeploymentLogs.delete(deploymentId)
SweepDelete(p) ==
  LET sw == sweeps[p] IN
  /\ sw.st = "push"
  /\ sw.idx > Len(sw.arr)
  /\ pendingDeploymentLogs' = [pendingDeploymentLogs EXCEPT ![sw.job] = <<>>]
  /\ \E nxt \in SweepAdvance(sw, pendingDeploymentLogs') :
       sweeps' = [q \in SweepIds |->
                    IF q = p THEN nxt
                    ELSE IF sweeps[q].job = sw.job
                         THEN [sweeps[q] EXCEPT !.live = FALSE]
                         ELSE sweeps[q]]
  /\ UNCHANGED <<now, deployments, loggerVars, logQueue, queueKeys, activeConnections,
                 storeOps, closeTimers, conns, pc, nextSeq, hist, jobVars>>

\* a failure that leaves the loop over the map
SweepFailsEndsPass(p) ==
  LET sw == sweeps[p] IN
  /\ sw.st = "find" \/ (sw.st = "push" /\ sw.idx <= Len(sw.arr))
  /\ hist[sw.job].sweepFails < MaxSweepFails
  /\ hist' = [hist EXCEPT ![sw.job].sweepFails = @ + 1]
  /\ sweeps' = [sweeps EXCEPT ![p] = IdleSweep]
  /\ UNCHANGED <<now, deployments, loggerVars, hubVars, pc, nextSeq, jobVars>>

\* connectToDatabase, findOne or an updateOne of the pass throws: the catch
\* inside the loop over the map logs it and the loop goes on
SweepFails(p) ==
  LET sw == sweeps[p] IN
  /\ sw.st = "find" \/ (sw.st = "push" /\ sw.idx <= Len(sw.arr))
  /\ hist[sw.job].sweepFails < MaxSweepFails
  /\ hist' = [hist EXCEPT ![sw.job].sweepFails = @ + 1]
  /\ \E nxt \in SweepAdvance(sw, pendingDeploymentLogs) :
       sweeps' = [sweeps EXCEPT ![p] = nxt]
  /\ UNCHANGED <<now, deployments, loggerVars, hubVars, pc, nextSeq, jobVars>>

\* the clock advances
Tick ==
  /\ now < MaxClock
  /\ now' = now + 1
  /\ UNCHANGED <<deployments, loggerVars, hubVars, sweeps, pc, nextSeq, hist, jobVars>>

(***************************************************************************)
(* The logger and the hub under a generic caller: the logger calls, the    *)
(* record save and waitForPendingLogs of deploy/route.ts in any order.     *)
(***************************************************************************)
\* (type, message class) of the logger calls of deploy/route.ts
LogKinds == {<<"info", MsgPlain>>, <<"success", MsgCompleted>>,
             <<"error", MsgFailed>>}

InitCaller ==
  /\ now = 0
  /\ deployments = [j \in JobIds |-> NoDeployment]
  /\ logBatch = [j \in JobIds |-> <<>>]
  /\ batchTimeout = [j \in JobIds |-> FALSE]
  /\ pendingLogs = [j \in JobIds |-> {}]
  /\ logQueue = [j \in JobIds |-> <<>>]
  /\ queueKeys = <<>>
  /\ activeConnections = [j \in JobIds |-> {}]
  /\ pendingDeploymentLogs = [j \in JobIds |-> <<>>]
  /\ storeOps = [j \in JobIds |-> {}]
  /\ sweeps = [p \in SweepIds |-> IdleSweep]
  /\ closeTimers = [j \in JobIds |-> 0]
  /\ conns = [c \in Conns |-> FreeConn]
  /\ pc = [j \in JobIds |-> "run"]
  /\ tempDir = [j \in JobIds |-> FALSE]
  /\ response = [j \in JobIds |-> "none"]
  /\ outcome = [j \in JobIds |-> NoOutcome]
  /\ nextSeq = [j \in JobIds |-> 1]
  /\ hist = [j \in JobIds |-> NoHist]

\* await logger.info(...) / logger.error(...) / logger.success(...)
CallLog(j, kind) ==
  /\ pc[j] = "run"
  /\ nextSeq[j] <= MaxEvents
  /\ LoggerLog(j, kind[1], kind[2])
  /\ UNCHANGED <<now, deployments, sweeps, pc, jobVars>>

\* a run of logger.info calls long enough to fill the hub's queue
CallInfo(j) ==
  /\ pc[j] = "run"
  /\ nextSeq[j] <= MaxPublishes
  /\ info(j, MsgPlain)
  /\ UNCHANGED <<now, deployments, sweeps, pc, jobVars>>

\* new Deployment({..., status, deploymentId}).save()
SaveDeployment(j, status, cid, err) ==
  deployments' = [deployments EXCEPT
                    ![j] = IF @.exists THEN [@ EXCEPT !.copies = @ + 1]
                           ELSE [exists |-> TRUE, status |-> status,
                                 cid |-> cid, error |-> err, logs |-> <<>>,
                                 copies |-> 1]]

\* the caller saves its record once
CallSave(j, status) ==
  /\ pc[j] = "run"
  /\ ~deployments[j].exists
  /\ SaveDeployment(j, status, IF status = "success" THEN "cid" ELSE "failed",
                    IF status = "success" THEN "none" ELSE "message")
  /\ UNCHANGED <<now, loggerVars, hubVars, sweeps, pc, nextSeq, hist, jobVars>>

CallWait(j) == WaitCall(j, "run", "wait")

CallWaitReturn(j) == WaitReturn(j, "wait", "run")

\* POST /api/deployments/[id]/embedded-logs by the owner of the record:
\* findOneAndUpdate({deploymentId, userId}, {$push: {logs: {type, message,
\* timestamp: new Date()}}}); the entry is no event of the logger, which its
\* number 0 says
PostEmbeddedLog(j, type) ==
  /\ deployments[j].exists
  /\ Cardinality({i \in DOMAIN deployments[j].logs :
                    deployments[j].logs[i].seq = 0}) < MaxPosts
  /\ deployments' = [deployments EXCEPT
                       ![j] = PushLog(@, [seq |-> 0, type |-> type,
                                          msg |-> MsgPlain, ts |-> now])]
  /\ UNCHANGED <<now, loggerVars, hubVars, sweeps, pc, nextSeq, hist, jobVars>>

\* the logger, the record and a client that posts log entries of its own
NextHistory ==
  \/ \E j \in Jobs : CallLog(j, <<"info", MsgPlain>>)
  \/ \E j \in Jobs : CallSave(j, "success")
  \/ \E j \in Jobs : CallWait(j)
  \/ \E j \in Jobs : CallWaitReturn(j)
  \/ \E j \in Jobs : FlushTimer(j)
  \/ \E j \in Jobs : BatchWrite(j)
  \/ \E j \in Jobs, type \in LogTypes : PostEmbeddedLog(j, type)

SpecHistory == InitCaller /\ [][NextHistory]_vars

\* a record whose history clients have filled through the embedded-logs
\* POST, up to the logger's limit and past it
Prefill == (SliceKeep - 2)..(SliceKeep + 1)

PostedType(i) == <<"info", "error", "success">>[(i % 3) + 1]

Posted(n) == [i \in 1..n |-> [seq |-> 0, type |-> PostedType(i),
                              msg |-> MsgPlain, ts |-> 0]]

InitLong ==
  /\ now = 0
  /\ \E n \in Prefill :
       deployments = [j \in JobIds |->
                        IF j \in Jobs
                        THEN [exists |-> TRUE, status |-> "success",
                              cid |-> "cid", error |-> "none",
                              logs |-> Posted(n), copies |-> 1]
                        ELSE NoDeployment]
  /\ logBatch = [j \in JobIds |-> <<>>]
  /\ batchTimeout = [j \in JobIds |-> FALSE]
  /\ pendingLogs = [j \in JobIds |-> {}]
  /\ logQueue = [j \in JobIds |-> <<>>]
  /\ queueKeys = <<>>
  /\ activeConnections = [j \in JobIds |-> {}]
  /\ pendingDeploymentLogs = [j \in JobIds |-> <<>>]
  /\ storeOps = [j \in JobIds |-> {}]
  /\ sweeps = [p \in SweepIds |-> IdleSweep]
  /\ closeTimers = [j \in JobIds |-> 0]
  /\ conns = [c \in Conns |-> FreeConn]
  /\ pc = [j \in JobIds |-> "run"]
  /\ tempDir = [j \in JobIds |-> FALSE]
  /\ response = [j \in JobIds |-> "none"]
  /\ outcome = [j \in JobIds |-> NoOutcome]
  /\ nextSeq = [j \in JobIds |-> 1]
  /\ hist = [j \in JobIds |-> NoHist]

\* the logger's batch writes and the hub's single pushes on a long history
NextSlice ==
  \/ \E j \in Jobs : CallLog(j, <<"info", MsgPlain>>)
  \/ \E j \in Jobs : CallWait(j)
  \/ \E j \in Jobs : CallWaitReturn(j)
  \/ \E j \in Jobs : FlushTimer(j)
  \/ \E j \in Jobs : BatchWrite(j)
  \/ \E j \in Jobs : StoreLookup(j)

SpecSlice == InitLong /\ [][NextSlice]_vars

\* logger, hub store calls and sweeper; no subscriber, so the kind of a log
\* makes no difference
NextStore ==
  \/ \E j \in Jobs : CallLog(j, <<"info", MsgPlain>>)
  \/ \E j \in Jobs : CallSave(j, "success")
  \/ \E j \in Jobs : CallWait(j)
  \/ \E j \in Jobs : CallWaitReturn(j)
  \/ \E j \in Jobs : FlushTimer(j)
  \/ \E j \in Jobs : BatchWrite(j)
  \/ \E j \in Jobs : StoreLookup(j)
  \/ \E j \in Jobs : StorePending(j)
  \/ \E p \in SweepIds, j \in Jobs : SweepStart(p, j)
  \/ \E p \in SweepIds : SweepFind(p)
  \/ \E p \in SweepIds : SweepPush(p)
  \/ \E p \in SweepIds : SweepDelete(p)

SpecStore == InitCaller /\ [][NextStore]_vars

\* one pass at a time over the pending entries of two jobs, the second with
\* a single event, and store operations of the pass that fail
FirstLog(j) == nextSeq[j] = 1 /\ CallLog(j, <<"info", MsgPlain>>)

NextSweepFault ==
  \/ \E j \in Jobs : CallLog(j, <<"info", MsgPlain>>)
  \/ \E j \in JobIds \ Jobs : FirstLog(j)
  \/ \E j \in JobIds : CallSave(j, "success")
  \/ \E j \in JobIds : StoreLookup(j)
  \/ \E j \in JobIds : StorePending(j)
  \/ \E j \in JobIds : SweepStart(1, j)
  \/ SweepFind(1)
  \/ SweepPush(1)
  \/ SweepDelete(1)
  \/ SweepFails(1)

SpecSweepFault == InitCaller /\ [][NextSweepFault]_vars

\* the logger when a batch write fails, with subscribers of the job
NextWriteFault ==
  \/ \E j \in Jobs : CallLog(j, <<"info", MsgPlain>>)
  \/ \E j \in Jobs : CallSave(j, "success")
  \/ \E j \in Jobs : CallWait(j)
  \/ \E j \in Jobs : CallWaitReturn(j)
  \/ \E j \in Jobs : FlushTimer(j)
  \/ \E j \in Jobs : BatchWrite(j)
  \/ \E j \in Jobs : BatchWriteFails(j)
  \/ \E c \in Conns, j \in Jobs : Subscribe(c, j)

SpecWriteFault == InitCaller /\ [][NextWriteFault]_vars

\* subscribers when a client goes away or a write to a client fails
NextFaults ==
  \/ \E j \in Jobs : CallLog(j, <<"info", MsgPlain>>)
  \/ \E c \in Conns, j \in Jobs : Subscribe(c, j)
  \/ \E c \in Conns : ReplayFire(c)
  \/ \E c \in Conns : Break(c)
  \/ \E c \in Conns : Keepalive(c)
  \/ \E c \in Conns : Abort(c)

SpecFaults == InitCaller /\ [][NextFaults]_vars

\* more publishes than the hub's queue holds
NextQueue ==
  \/ \E j \in Jobs : CallInfo(j)
  \/ \E j \in Jobs : CallSave(j, "success")

SpecQueue == InitCaller /\ [][NextQueue]_vars

\* two jobs, one id containing the other, and subscribers of either
NextIsolation ==
  \/ \E j \in JobIds : CallLog(j, <<"info", MsgPlain>>)
  \/ \E c \in Conns, j \in JobIds : Subscribe(c, j)
  \/ \E c \in Conns : ReplayFire(c)

SpecIsolation == InitCaller /\ [][NextIsolation]_vars

\* the store answers every operation, every continuation runs, timers fire
\* and the sweeper's interval keeps starting passes; the caller may stop
FairStore ==
  /\ \A j \in Jobs : WF_vars(FlushTimer(j))
  /\ \A j \in Jobs : WF_vars(BatchWrite(j))
  /\ \A j \in Jobs : WF_vars(StoreLookup(j))
  /\ \A j \in Jobs : WF_vars(StorePending(j))
  /\ WF_vars(\E p \in SweepIds, j \in Jobs : SweepStart(p, j))
  /\ \A p \in SweepIds : WF_vars(SweepFind(p))
  /\ \A p \in SweepIds : WF_vars(SweepPush(p))
  /\ \A p \in SweepIds : WF_vars(SweepDelete(p))

SpecStoreFair == SpecStore /\ FairStore

\* publish, subscribe and replay against the clock; the store is not
\* involved
NextReplay ==
  \/ Tick
  \/ \E j \in Jobs : CallLog(j, <<"info", MsgPlain>>)
  \/ \E c \in Conns, j \in Jobs : Subscribe(c, j)
  \/ \E c \in Conns : ReplayFire(c)
  \/ \E c \in Conns : Abort(c)

SpecReplay == InitCaller /\ [][NextReplay]_vars

\* completion: hub store calls, one sweeper pass at a time, subscribers
NextCompletion ==
  \/ \E j \in Jobs, k \in LogKinds : CallLog(j, k)
  \/ \E j \in Jobs, st \in {"success", "failed"} : CallSave(j, st)
  \/ \E j \in Jobs : StoreLookup(j)
  \/ \E j \in Jobs : StorePending(j)
  \/ \E j \in Jobs : SweepStart(1, j)
  \/ SweepFind(1)
  \/ SweepPush(1)
  \/ SweepDelete(1)
  \/ \E c \in Conns, j \in Jobs : Subscribe(c, j)
  \/ \E c \in Conns : ReplayFire(c)
  \/ \E c \in Conns : Abort(c)
  \/ \E j \in Jobs : CloseFire(j)

SpecCompletion == InitCaller /\ [][NextCompletion]_vars

(***************************************************************************)
(* The pipeline: POST /api/deploy and its background task.  A stage is     *)
(* represented by the log call that ends it; the plain info logs inside a  *)
(* stage are not separate steps.                                           *)
(***************************************************************************)
Stages == <<"access", "clone", "install", "env", "build", "output",
            "export", "prepare", "upload">>

StageIndex(s) == CHOOSE i \in DOMAIN Stages : Stages[i] = s

\* where the task goes after stage s has ended without aborting
AfterStage(s) ==
  IF s = "upload" THEN "save" ELSE Stages[StageIndex(s) + 1]

\* the log call that ends a stage that worked
StageOkLog(s) ==
  CASE s = "access" -> <<"info", MsgPlain>>
    [] s = "clone" -> <<"success", MsgPlain>>
    [] s = "install" -> <<"success", MsgPlain>>
    [] s = "env" -> <<"success", MsgPlain>>
    [] s = "build" -> <<"success", MsgCompleted>>
    [] s = "output" -> <<"info", MsgPlain>>
    [] s = "export" -> <<"success", MsgCompleted>>
    [] s = "prepare" -> <<"success", MsgPlain>>
    [] s = "upload" -> <<"success", MsgPlain>>

\* the log call of a stage that failed; the message of a failed child
\* process ("Command failed: ...") and of a failed fetch ("fetch failed")
\* contains 'failed'
StageFailLog(s) ==
  CASE s = "access" -> <<"error", MsgPlain>>
    [] s = "clone" -> <<"error", MsgFailed>>
    [] s = "install" -> <<"error", MsgFailed>>
    [] s = "env" -> <<"error", MsgFailed>>
    [] s = "build" -> <<"error", MsgFailed>>
    [] s = "output" -> <<"error", MsgPlain>>
    [] s = "export" -> <<"error", MsgFailed>>
    [] s = "upload" -> <<"error", MsgPlain>>

\* where the task goes after stage s has failed
AfterFailure(s) ==
  CASE s \in {"env", "export"} -> AfterStage(s)
    [] s = "upload" -> "saveFailed"
    [] OTHER -> "finally"

\* stages the task may skip: no install and no build for a static site,
\* no export unless a Next.js build left '.next'
Optional == {"install", "build", "export"}

PipeLog(j, kind, to) ==
  /\ LoggerLog(j, kind[1], kind[2])
  /\ pc' = [pc EXCEPT ![j] = to]
  /\ UNCHANGED <<now, deployments, sweeps>>

\* generateDeploymentId, new DeploymentLogger, the first log call
Start(j) ==
  /\ pc[j] = "idle"
  /\ PipeLog(j, <<"info", MsgPlain>>, "session")
  /\ UNCHANGED jobVars

\* no session: an error log and a 401
Unauthorized(j) ==
  /\ pc[j] = "session"
  /\ PipeLog(j, <<"error", MsgPlain>>, "rejected")
  /\ response' = [response EXCEPT ![j] = "error"]
  /\ UNCHANGED <<tempDir, outcome>>

\* missing repoFullName or branch (400), missing IPFS_API_KEY (500)
Reject(j) ==
  /\ pc[j] = "session"
  /\ pc' = [pc EXCEPT ![j] = "rejected"]
  /\ response' = [response EXCEPT ![j] = "error"]
  /\ UNCHANGED <<now, deployments, loggerVars, hubVars, sweeps, tempDir, outcome,
                 nextSeq, hist>>

\* a submission that stores a pending record before it answers
AcceptCreatesRecord(j) ==
  /\ pc[j] = "session"
  /\ LoggerLog(j, "info", MsgPlain)
  /\ pc' = [pc EXCEPT ![j] = "access"]
  /\ deployments' = [deployments EXCEPT
                       ![j] = [exists |-> TRUE, status |-> "pending",
                               cid |-> "none", error |-> "none", logs |-> <<>>,
                               copies |-> 1]]
  /\ tempDir' = [tempDir EXCEPT ![j] = TRUE]
  /\ response' = [response EXCEPT ![j] = "deploymentId"]
  /\ UNCHANGED <<now, sweeps, outcome>>

\* a server that starts a task only when no other task is in a stage
AcceptWhenOthersIdle(j) ==
  /\ pc[j] = "session"
  /\ \A k \in JobIds \ {j} : pc[k] \notin Range(Stages)
  /\ PipeLog(j, <<"info", MsgPlain>>, "access")
  /\ tempDir' = [tempDir EXCEPT ![j] = TRUE]
  /\ response' = [response EXCEPT ![j] = "deploymentId"]
  /\ UNCHANGED outcome

\* mkdirSync(tempDir), the 'Deployment started' log, the background task
\* is started and the response carries the deployment id
Accept(j) ==
  /\ pc[j] = "session"
  /\ PipeLog(j, <<"info", MsgPlain>>, "access")
  /\ tempDir' = [tempDir EXCEPT ![j] = TRUE]
  /\ response' = [response EXCEPT ![j] = "deploymentId"]
  /\ UNCHANGED outcome

StageOk(j, s) ==
  /\ pc[j] = s
  /\ PipeLog(j, StageOkLog(s), AfterStage(s))
  /\ UNCHANGED jobVars

StageSkip(j, s) ==
  /\ pc[j] = s
  /\ s \in Optional
  /\ pc' = [pc EXCEPT ![j] = AfterStage(s)]
  /\ UNCHANGED <<now, deployments, loggerVars, hubVars, sweeps, jobVars,
                 nextSeq, hist>>

StageFail(j, s) ==
  /\ pc[j] = s
  /\ s # "prepare"
  /\ PipeLog(j, StageFailLog(s), AfterFailure(s))
  /\ outcome' = [outcome EXCEPT
                   ![j].failed = IF @ = "none" THEN s ELSE @]
  /\ UNCHANGED <<tempDir, response>>

\* prepareReactAppForIPFS throws: nothing catches it inside the task, the
\* finally block runs and the rejection reaches the .catch of the task
PrepareThrows(j) ==
  /\ pc[j] = "prepare"
  /\ pc' = [pc EXCEPT ![j] = "finallyThrown"]
  /\ outcome' = [outcome EXCEPT
                   ![j].failed = IF @ = "none" THEN "prepare" ELSE @]
  /\ UNCHANGED <<now, deployments, loggerVars, hubVars, sweeps, tempDir,
                 response, nextSeq, hist>>

\* the success record: await deployment.save() with status 'success'
SaveSuccess(j) ==
  /\ pc[j] = "save"
  /\ SaveDeployment(j, "success", "cid", "none")
  /\ pc' = [pc EXCEPT ![j] = "terminal"]
  /\ UNCHANGED <<now, loggerVars, hubVars, sweeps, jobVars, nextSeq, hist>>

\* the save of the success record throws: the catch of the upload block
SaveSuccessThrows(j) ==
  /\ pc[j] = "save"
  /\ PipeLog(j, <<"error", MsgPlain>>, "saveFailed")
  /\ UNCHANGED jobVars

\* a terminal log call that throws into the catch of the upload block
TerminalLogThrows(j) ==
  /\ pc[j] = "terminal"
  /\ PipeLog(j, <<"success", MsgCompleted>>, "saveFailed")
  /\ outcome' = [outcome EXCEPT ![j].terminalSeq = nextSeq[j]]
  /\ UNCHANGED <<tempDir, response>>

\* 'Deployment completed successfully with CID ...'
TerminalLog(j) ==
  /\ pc[j] = "terminal"
  /\ PipeLog(j, <<"success", MsgCompleted>>, "waitSuccess")
  /\ outcome' = [outcome EXCEPT ![j].terminalSeq = nextSeq[j]]
  /\ UNCHANGED <<tempDir, response>>

\* the failed record: await deployment.save() with status 'failed'
SaveFailed(j) ==
  /\ pc[j] = "saveFailed"
  /\ SaveDeployment(j, "failed", "failed", "message")
  /\ pc' = [pc EXCEPT ![j] = "failedLog"]
  /\ UNCHANGED <<now, loggerVars, hubVars, sweeps, jobVars, nextSeq, hist>>

\* the save of the failed record throws: 'Error saving failed deployment to
\* database: ...'
SaveFailedThrows(j) ==
  /\ pc[j] = "saveFailed"
  /\ PipeLog(j, <<"error", MsgFailed>>, "finally")
  /\ UNCHANGED jobVars

\* 'Failed deployment saved to database with ID ...'
FailedLog(j) ==
  /\ pc[j] = "failedLog"
  /\ PipeLog(j, <<"info", MsgPlain>>, "waitFailed")
  /\ UNCHANGED jobVars

\* a finally block that removes nothing and logs nothing about it
CleanupKeepsDir(j) ==
  /\ pc[j] \in {"finally", "finallyThrown"}
  /\ PipeLog(j, <<"info", MsgPlain>>,
             IF pc[j] = "finally" THEN "waitCleanup" ELSE "waitCleanupThrown")
  /\ UNCHANGED <<tempDir, response, outcome>>

\* finally: rmSync(tempDir) and the 'Cleaned up' log
Cleanup(j) ==
  /\ pc[j] \in {"finally", "finallyThrown"}
  /\ PipeLog(j, <<"info", MsgPlain>>,
             IF pc[j] = "finally" THEN "waitCleanup" ELSE "waitCleanupThrown")
  /\ tempDir' = [tempDir EXCEPT ![j] = FALSE]
  /\ UNCHANGED <<response, outcome>>

\* finally: rmSync(tempDir) throws, the catch logs 'Error cleaning up
\* temporary directory' and the directory stays
CleanupThrows(j) ==
  /\ pc[j] \in {"finally", "finallyThrown"}
  /\ PipeLog(j, <<"error", MsgPlain>>,
             IF pc[j] = "finally" THEN "done" ELSE "unhandled")
  /\ outcome' = [outcome EXCEPT ![j].cleanupError = TRUE]
  /\ UNCHANGED <<tempDir, response>>

\* the .catch of the background task: 'Unhandled error in deployment process'
Unhandled(j) ==
  /\ pc[j] = "unhandled"
  /\ PipeLog(j, <<"error", MsgPlain>>, "waitUnhandled")
  /\ UNCHANGED jobVars

\* the awaits of logger.waitForPendingLogs() in the task
WaitPoints ==
  {<<"waitSuccess", "awaitSuccess", "finally">>,
   <<"waitFailed", "awaitFailed", "finally">>,
   <<"waitCleanup", "awaitCleanup", "done">>,
   <<"waitCleanupThrown", "awaitCleanupThrown", "unhandled">>,
   <<"waitUnhandled", "awaitUnhandled", "done">>}

PipeWait(j, w) == WaitCall(j, w[1], w[2])

PipeWaitReturn(j, w) == WaitReturn(j, w[2], w[3])

\* PATCH /api/deployments/[id]: findOneAndUpdate({deploymentId, userId},
\* {$set: {status}}) by the owner; the accepted values are those of the
\* handler's own list
PatchStatuses == {"completed", "failed", "in_progress"}

Patch(j, status) ==
  /\ status \in PatchStatuses
  /\ deployments[j].exists
  /\ deployments[j].status # status
  /\ deployments' = [deployments EXCEPT ![j].status = status]
  /\ UNCHANGED <<now, loggerVars, hubVars, sweeps, pc, jobVars, nextSeq, hist>>

\* the userId that the records of the model carry, and the userIds a
\* session can resolve to
Owner == "user_1"
Users == {Owner, "user_2"}

\* body.status of a PATCH: a value of the list, no value, or another value
PatchBodies == PatchStatuses \cup {"none", "success"}

\* a PATCH handler whose filter leaves out the userId
PatchRequestAnyUser(j, userId, status) ==
  LET valid == status # "none" /\ status \in PatchStatuses
      found == deployments[j].exists
      code == IF ~valid THEN 400 ELSE IF found THEN 200 ELSE 404
  IN
  /\ hist[j].patches < MaxPatches
  /\ deployments' = IF code = 200
                    THEN [deployments EXCEPT ![j].status = status]
                    ELSE deployments
  /\ hist' = [hist EXCEPT
                ![j].patches = @ + 1,
                ![j].lastPatch = [userId |-> userId, status |-> status,
                                  code |-> code]]
  /\ UNCHANGED <<now, loggerVars, hubVars, sweeps, pc, jobVars, nextSeq>>

\* PATCH /api/deployments/[id] with a session: 400 when body.status is
\* missing or not in the list, else findOneAndUpdate({deploymentId, userId},
\* {$set: {status}}), 404 when nothing matched, else 200
PatchRequest(j, userId, status) ==
  LET valid == status # "none" /\ status \in PatchStatuses
      found == deployments[j].exists /\ userId = Owner
      code == IF ~valid THEN 400 ELSE IF found THEN 200 ELSE 404
  IN
  /\ hist[j].patches < MaxPatches
  /\ deployments' = IF code = 200
                    THEN [deployments EXCEPT ![j].status = status]
                    ELSE deployments
  /\ hist' = [hist EXCEPT
                ![j].patches = @ + 1,
                ![j].lastPatch = [userId |-> userId, status |-> status,
                                  code |-> code]]
  /\ UNCHANGED <<now, loggerVars, hubVars, sweeps, pc, jobVars, nextSeq>>

\* two records, one with a history, and PATCH requests of any caller
NextPatch ==
  \/ \E j \in Jobs : CallLog(j, <<"info", MsgPlain>>)
  \/ \E j \in JobIds, st \in {"success", "failed"} : CallSave(j, st)
  \/ \E j \in Jobs : StoreLookup(j)
  \/ \E j \in JobIds, u \in Users, st \in PatchBodies : PatchRequest(j, u, st)

SpecPatch == InitCaller /\ [][NextPatch]_vars

Pipeline(j) ==
  \/ Start(j)
  \/ Unauthorized(j)
  \/ Reject(j)
  \/ Accept(j)
  \/ \E s \in Range(Stages) : StageOk(j, s)
  \/ \E s \in Range(Stages) : StageSkip(j, s)
  \/ \E s \in Range(Stages) : StageFail(j, s)
  \/ PrepareThrows(j)
  \/ SaveSuccess(j)
  \/ SaveSuccessThrows(j)
  \/ TerminalLog(j)
  \/ SaveFailed(j)
  \/ SaveFailedThrows(j)
  \/ FailedLog(j)
  \/ Cleanup(j)
  \/ CleanupThrows(j)
  \/ Unhandled(j)
  \/ \E w \in WaitPoints : PipeWait(j, w)
  \/ \E w \in WaitPoints : PipeWaitReturn(j, w)

\* two requests and the stages of their tasks, up to the record save
NextTwoJobs ==
  \/ \E j \in JobIds : Start(j)
  \/ \E j \in JobIds : Unauthorized(j)
  \/ \E j \in JobIds : Reject(j)
  \/ \E j \in JobIds : Accept(j)
  \/ \E j \in JobIds, s \in Range(Stages) : StageOk(j, s)
  \/ \E j \in JobIds, s \in Range(Stages) : StageSkip(j, s)
  \/ \E j \in JobIds, s \in Range(Stages) : StageFail(j, s)
  \/ \E j \in JobIds : PrepareThrows(j)

SpecTwoJobs == Init /\ [][NextTwoJobs]_vars

\* one request and the stages of its task against the clock
NextTimed ==
  \/ Tick
  \/ \E j \in Jobs : Start(j)
  \/ \E j \in Jobs : Unauthorized(j)
  \/ \E j \in Jobs : Reject(j)
  \/ \E j \in Jobs : Accept(j)
  \/ \E j \in Jobs, s \in Range(Stages) : StageOk(j, s)
  \/ \E j \in Jobs, s \in Range(Stages) : StageSkip(j, s)
  \/ \E j \in Jobs, s \in Range(Stages) : StageFail(j, s)
  \/ \E j \in Jobs : PrepareThrows(j)

SpecTimed == Init /\ [][NextTimed]_vars

\* the pipeline with its logger and the record store; the hub's own store
\* calls and the sweeper are exercised by SpecStore, its subscribers by
\* SpecReplay and SpecCompletion
Next ==
  \/ \E j \in Jobs : Pipeline(j)
  \/ \E j \in Jobs : hist[j].timerFires < MaxTimerFires /\ FlushTimer(j)
  \/ \E j \in Jobs : BatchWrite(j)
  \/ \E j \in Jobs, st \in PatchStatuses : Patch(j, st)

Spec == Init /\ [][Next]_vars

(***************************************************************************)
(* The log viewer (DeploymentLogs.tsx).                                    *)
(***************************************************************************)
\* hasReceivedCompletionEvent = true; onLogsComplete?.(ok)
Report(cl, ok) ==
  [cl EXCEPT !.hasReceivedCompletionEvent = TRUE,
             !.reports = Append(@, ok)]

\* eventSource.onmessage
onmessage(cl, log) ==
  LET c1 == IF log.kind # "initial"
            THEN [cl EXCEPT !.hasReceivedLogs = TRUE,
                            !.processingTimeout =
                               IF @ = "armed" THEN "cleared" ELSE @]
            ELSE cl
  IN IF log.type = "success" /\ log.msg = MsgCompleted
     THEN [Report(c1, TRUE) EXCEPT !.closeTimer = TRUE]
     ELSE IF /\ ~c1.hasReceivedCompletionEvent
             /\ log.type = "error" /\ log.msg = MsgFailed
          THEN [Report(c1, FALSE) EXCEPT !.closeTimer = TRUE]
          ELSE c1

\* the listener of 'completion' events
onCompletion(cl, ev) ==
  LET c1 == IF ~cl.hasReceivedCompletionEvent \/ ev.type = "completion_success"
            THEN Report(cl, ev.type = "completion_success")
            ELSE cl
  IN [c1 EXCEPT !.closed = TRUE]

\* the viewer handles the next frame that the server wrote to its stream
ClientMessage(c) ==
  LET cl == conns[c].client
      f == conns[c].frames[cl.handled + 1]
      c1 == [cl EXCEPT !.handled = @ + 1]
  IN
  /\ ~cl.closed
  /\ cl.handled < Len(conns[c].frames)
  /\ conns' = [conns EXCEPT ![c].client =
                 IF f.kind = "completion" THEN onCompletion(c1, f)
                 ELSE onmessage(c1, f)]
  /\ UNCHANGED <<now, deployments, loggerVars, logQueue, queueKeys,
                 activeConnections, pendingDeploymentLogs, storeOps, sweeps,
                 closeTimers, pc, nextSeq, hist, jobVars>>

\* setTimeout(() => eventSource.close(), 2000)
ClientCloseTimer(c) ==
  /\ conns[c].client.closeTimer
  /\ conns' = [conns EXCEPT ![c].client.closeTimer = FALSE,
                            ![c].client.closed = TRUE]
  /\ UNCHANGED <<now, deployments, loggerVars, logQueue, queueKeys,
                 activeConnections, pendingDeploymentLogs, storeOps, sweeps,
                 closeTimers, pc, nextSeq, hist, jobVars>>

\* processingTimeout fires 2 s after the mount: fetchLogsDirectly when
\* nothing but the initial message has come
ProcessingTimeout(c) ==
  LET cl == conns[c].client IN
  /\ cl.processingTimeout = "armed"
  /\ conns' = [conns EXCEPT
       ![c].client.processingTimeout = "fired",
       ![c].client.fetch =
          IF ~cl.hasReceivedLogs /\ ~cl.hasReceivedCompletionEvent
          THEN "logs" ELSE @]
  /\ UNCHANGED <<now, deployments, loggerVars, logQueue, queueKeys,
                 activeConnections, pendingDeploymentLogs, storeOps, sweeps,
                 closeTimers, pc, nextSeq, hist, jobVars>>

\* the answer to fetchLogsDirectly: the record's logs, or nothing when the
\* job has no record (404, then the empty legacy collection)
FetchReturns(c) ==
  LET cl == conns[c].client
      j == conns[c].job
      logs == IF deployments[j].exists THEN deployments[j].logs ELSE <<>>
      c1 == IF logs # <<>> THEN [cl EXCEPT !.hasReceivedLogs = TRUE] ELSE cl
  IN
  /\ cl.fetch = "logs"
  /\ conns' = [conns EXCEPT ![c].client =
       IF \E i \in DOMAIN logs :
            logs[i].type = "success" /\ logs[i].msg = MsgCompleted
       THEN [Report(c1, TRUE) EXCEPT !.fetch = "none"]
       ELSE IF \E i \in DOMAIN logs :
                 logs[i].type = "error" /\ logs[i].msg = MsgFailed
            THEN [Report(c1, FALSE) EXCEPT !.fetch = "none"]
            ELSE [c1 EXCEPT !.fetch = "status"]]
  /\ UNCHANGED <<now, deployments, loggerVars, logQueue, queueKeys,
                 activeConnections, pendingDeploymentLogs, storeOps, sweeps,
                 closeTimers, pc, nextSeq, hist, jobVars>>

\* the answer to checkDeploymentStatus
checkDeploymentStatus(c) ==
  LET cl == conns[c].client
      j == conns[c].job
      c1 == [cl EXCEPT !.fetch = "none"]
  IN
  /\ cl.fetch = "status"
  /\ conns' = [conns EXCEPT ![c].client =
       IF deployments[j].exists /\ deployments[j].status \in {"success", "failed"}
       THEN Report(c1, deployments[j].status = "success")
       ELSE c1]
  /\ UNCHANGED <<now, deployments, loggerVars, logQueue, queueKeys,
                 activeConnections, pendingDeploymentLogs, storeOps, sweeps,
                 closeTimers, pc, nextSeq, hist, jobVars>>

\* one viewer of one job's task
NextClient ==
  \/ \E j \in Jobs : Start(j)
  \/ \E j \in Jobs : Accept(j)
  \/ \E j \in Jobs, s \in Range(Stages) : StageOk(j, s)
  \/ \E j \in Jobs, s \in Range(Stages) : StageSkip(j, s)
  \/ \E j \in Jobs, s \in Range(Stages) : StageFail(j, s)
  \/ \E j \in Jobs : SaveSuccess(j)
  \/ \E j \in Jobs : TerminalLog(j)
  \/ \E j \in Jobs : SaveFailed(j)
  \/ \E j \in Jobs : FailedLog(j)
  \/ \E j \in Jobs : BatchWrite(j)
  \/ \E j \in Jobs : Subscribe(1, j)
  \/ ClientMessage(1)
  \/ ClientCloseTimer(1)
  \/ ProcessingTimeout(1)
  \/ FetchReturns(1)
  \/ checkDeploymentStatus(1)

SpecClient == Init /\ [][NextClient]_vars

(***************************************************************************)
(* Properties.                                                             *)
(***************************************************************************)
\* the events of a job's persisted history, by number
Persisted(j) == {deployments[j].logs[i].seq : i \in DOMAIN deployments[j].logs}

\* position of the first entry of event n in a history
FirstPos(logs, n) ==
  CHOOSE i \in DOMAIN logs :
    logs[i].seq = n /\ \A k \in 1..(i - 1) : logs[k].seq # n

\* the log frames written to a connection, in order
LogFrames(c) == SelectSeq(conns[c].frames, LAMBDA f : f.kind = "log")

\* nothing is left to run for the job: no store call, no sweeper pass, no
\* timer; pending logs wait for a record that does not exist
Quiet(j) ==
  /\ storeOps[j] = {}
  /\ closeTimers[j] = 0
  /\ \A p \in SweepIds : sweeps[p].st = "idle"
  /\ pendingDeploymentLogs[j] = <<>> \/ ~deployments[j].exists
  /\ \A c \in Conns : conns[c].job = j => ~conns[c].replay

\* C1: after waitForPendingLogs has returned for a job whose record existed
\* at the return, every event recorded before the call is in the job's
\* persisted event history
C1_FlushedIsPersisted ==
  \A j \in Jobs :
    hist[j].waitedOn => \A n \in 1..hist[j].waited : n \in Persisted(j)

\* C2: an event that was published before the record existed and has been
\* persisted from the pending queue stands at its original position: before
\* every persisted event recorded after it and after every persisted event
\* recorded before it
C2_PendingKeepsOrder ==
  \A j \in Jobs : \A a \in hist[j].swept : \A b \in Persisted(j) :
    a # b =>
      LET logs == deployments[j].logs IN
      (a < b) = (FirstPos(logs, a) < FirstPos(logs, b))

\* C3: once the record exists, every event published for the job is
\* eventually in the persisted history
C3_EventuallyPersisted ==
  \A j \in Jobs : \A n \in 1..MaxEvents :
    [](deployments[j].exists /\ nextSeq[j] > n => <>(n \in Persisted(j)))

\* C4: the log frames written to a subscriber are non-decreasing in
\* timestamp
C4_TimestampsNonDecreasing ==
  \A c \in Conns :
    LET fs == LogFrames(c) IN
    \A i \in DOMAIN fs : \A k \in DOMAIN fs :
      i < k => NewDate(fs[i].ts) <= NewDate(fs[k].ts)

\* C5: the events buffered at attach time reach the subscriber before any
\* event published after the attach, and those arrive in recorded order
C5_ReplayThenLive ==
  \A c \in Conns :
    LET fs == LogFrames(c)
        at == conns[c].attach IN
    \A i \in DOMAIN fs : \A k \in DOMAIN fs :
      i < k =>
        /\ ~(fs[i].seq > at /\ fs[k].seq <= at)
        /\ (fs[i].seq > at /\ fs[k].seq > at => fs[i].seq < fs[k].seq)

\* the events after number m that a connection has been sent, in order
SentAfter(c, m) ==
  LET fs == SelectSeq(LogFrames(c), LAMBDA f : f.seq > m) IN
  [i \in DOMAIN fs |-> fs[i].seq]

\* C6: two subscribers of one job, once the replay of each is over, have
\* observed the same sequence of the events published after the later of
\* their attach points
C6_SameLiveSequence ==
  \A c \in Conns : \A d \in Conns :
    /\ c # d
    /\ conns[c].st = "open" /\ conns[d].st = "open"
    /\ ~conns[c].replay /\ ~conns[d].replay
    /\ conns[c].job = conns[d].job
    => LET m == IF conns[c].attach > conns[d].attach
                THEN conns[c].attach ELSE conns[d].attach
       IN SentAfter(c, m) = SentAfter(d, m)

\* C7: a subscriber that attached after the completion event was sent has,
\* once nothing is left to run, received the buffered events, then a
\* completion event, and been closed by the server
C7_LateSubscriberCompletes ==
  \A c \in Conns :
    conns[c].late /\ conns[c].st \in {"open", "closed"} /\ Quiet(conns[c].job)
    => /\ conns[c].st = "closed"
       /\ \E i \in DOMAIN conns[c].frames :
            /\ conns[c].frames[i].kind = "completion"
            /\ \A k \in DOMAIN conns[c].frames :
                 conns[c].frames[k].kind = "log" => k < i
            /\ \E k \in DOMAIN conns[c].frames :
                 conns[c].frames[k].kind = "log"

\* C8: every subscriber attached when a terminal event was published, no
\* completion event having been sent for the job before, has,
\* once the record exists and nothing is left to run, been sent a
\* completion event and been closed and removed from the registry
C8_TerminalCompletes ==
  \A j \in Jobs : \A c \in hist[j].terminalTo :
    conns[c].st # "aborted" /\ deployments[j].exists /\ Quiet(j)
    => /\ \E i \in DOMAIN conns[c].frames :
            conns[c].frames[i].kind = "completion"
       /\ conns[c].st = "closed"
       /\ c \notin activeConnections[toLowerCase(j)]

\* the stage of the job life cycle a stored status string stands for
StatusClass(status) ==
  CASE status \in {"success", "completed"} -> "succeeded"
    [] status = "failed" -> "failed"
    [] status = "in_progress" -> "running"
    [] OTHER -> "none"

\* C9: no step moves a record that is succeeded or failed to another stage
C9_TerminalStatusFinal ==
  [][\A j \in Jobs :
       deployments[j].exists
       /\ StatusClass(deployments[j].status) \in {"succeeded", "failed"}
       => StatusClass(deployments'[j].status) = StatusClass(deployments[j].status)]_vars

BeforeRecord == Range(Stages) \cup {"idle", "session", "rejected", "save",
                                    "saveFailed"}

C11_FailureLeavesFailedRecord ==
  \A j \in Jobs :
    /\ pc[j] = "done"
    /\ outcome[j].failed \in {"access", "clone", "install", "build", "output",
                             "upload"}
    /\ ~outcome[j].cleanupError
    => /\ deployments[j].exists
      /\ deployments[j].status = "failed"
      /\ deployments[j].error # "none"

\* C12: while the record reads status success, the terminal success event
\* of the job is in the record's persisted history
C12_SuccessAfterTerminalEvent ==
  \A j \in Jobs :
    deployments[j].exists /\ deployments[j].status = "success" =>
      /\ outcome[j].terminalSeq # 0
      /\ outcome[j].terminalSeq \in Persisted(j)

C14_FailureAbortsStages ==
  [][\A j \in Jobs :
       outcome[j].failed # "none" /\ pc[j] \in Range(Stages)
       => nextSeq'[j] = nextSeq[j]]_vars

\* C15: the persisted history of a job holds its events in the order in
\* which they were recorded
C15_HistoryInRecordedOrder ==
  \A j \in Jobs :
    LET logs == deployments[j].logs IN
    \A i \in DOMAIN logs : \A k \in DOMAIN logs :
      i < k => logs[i].seq < logs[k].seq

\* C16: once a batch write has failed, no wait raises to the caller, and
\* every later log call still queues its event in the hub and writes it to
\* every open subscriber of the job
C16_WriteFailureContained ==
  [][\A j \in Jobs :
       hist[j].writeFailedAt > 0 =>
         /\ pc'[j] # "raised"
         /\ nextSeq'[j] # nextSeq[j] =>
              LET n == toLowerCase(j)
                  q == logQueue'[n] IN
              /\ q # <<>> /\ q[Len(q)].seq = nextSeq[j]
              /\ \A c \in activeConnections[n] :
                   conns[c].st = "open" =>
                     LET fs == conns'[c].frames IN
                     /\ Len(fs) = Len(conns[c].frames) + 1
                     /\ fs[Len(fs)].kind = "log"
                     /\ fs[Len(fs)].seq = nextSeq[j]]_vars

\* the write of the batch of event 1 has failed, event 2 was recorded
\* afterwards and has reached a subscriber, and a wait has returned since
C16_Witness ==
  \E j \in Jobs : \E c \in Conns :
    /\ hist[j].writeFailedAt = 1
    /\ hist[j].waited = 2
    /\ pc[j] = "run"
    /\ conns[c].st = "open"
    /\ \E i \in DOMAIN conns[c].frames :
         conns[c].frames[i].kind = "log" /\ conns[c].frames[i].seq = 2

\* the numbers of the events of a queue, in queue order
SeqsOf(q) == [i \in DOMAIN q |-> q[i].seq]

\* C17: after any sequence of publishes the queue of a job holds at most
\* 100 events, and they are the most recently published ones in publish
\* order
C17_QueueHoldsMostRecent ==
  \A j \in Jobs :
    LET q == logQueue[toLowerCase(j)]
        published == nextSeq[j] - 1
        kept == IF published > QueueCap THEN QueueCap ELSE published
    IN /\ Len(q) <= QueueCap
       /\ Len(q) = kept
       /\ SeqsOf(q) = [i \in 1..kept |-> published - kept + i]

\* two events more than the cap were published: the first two are gone
C17_Witness ==
  \E j \in Jobs :
    LET q == logQueue[toLowerCase(j)] IN
    /\ nextSeq[j] - 1 = QueueCap + 2
    /\ Len(q) = QueueCap
    /\ q[1].seq = 3

\* C18: when a log call's write to one subscriber of the job fails, the
\* same event is still written to every other open subscriber of the job,
\* and the logger call returns normally: the caller goes on and the event
\* is queued in the hub and batched for the store
C18_FailedWriteIsolated ==
  [][\A j \in Jobs :
       LET n == toLowerCase(j) IN
       (/\ nextSeq'[j] # nextSeq[j]
        /\ \E b \in activeConnections[n] : conns[b].st = "broken") =>
         /\ pc'[j] = pc[j]
         /\ logQueue'[n] # <<>>
         /\ logQueue'[n][Len(logQueue'[n])].seq = nextSeq[j]
         /\ \/ logBatch'[j] # <<>>
               /\ logBatch'[j][Len(logBatch'[j])].seq = nextSeq[j]
            \/ \E op \in pendingLogs'[j] :
                 op.logs[Len(op.logs)].seq = nextSeq[j]
         /\ \A b \in activeConnections[n] :
              conns[b].st = "broken" => conns'[b].writeFailed
         /\ \A c \in activeConnections[n] :
              conns[c].st = "open" =>
                /\ conns'[c].frames =
                     Append(conns[c].frames, DataFrame(logQueue'[n][Len(logQueue'[n])]))
                /\ conns'[c].st = "open"]_vars

\* the only publish so far failed on one subscriber, whose keepalive is
\* still armed, and reached another one live
C18_Witness ==
  \E j \in Jobs : \E b \in Conns : \E c \in Conns :
    /\ nextSeq[j] = 2 /\ pc[j] = "run"
    /\ {b, c} \subseteq activeConnections[toLowerCase(j)]
    /\ conns[b].st = "broken" /\ conns[b].writeFailed /\ conns[b].keepalive
    /\ conns[b].attach = 0
    /\ conns[c].st = "open" /\ conns[c].attach = 0
    /\ \E i \in DOMAIN conns[c].frames :
         conns[c].frames[i].kind = "log" /\ conns[c].frames[i].seq = 1

\* C19: a subscription to which a write has failed is no longer in the
\* registry of its job
C19_FailedSubscriptionPruned ==
  \A c \in Conns :
    conns[c].writeFailed => c \notin activeConnections[conns[c].job]

\* C20: the abort of one subscription takes that controller, and nothing
\* else, out of the registry: the other subscriptions, the hub's queue, the
\* pending logs, the caller's position, its logger and the record stay as
\* they are; and every later log call still reaches every other open
\* subscription of the job
C20_AbortRemovesOnlyThatHandle ==
  [][/\ \A c \in Conns :
          (conns[c].st \in {"open", "broken"} /\ conns'[c].st = "aborted") =>
            /\ activeConnections' =
                 [activeConnections EXCEPT ![conns[c].job] = @ \ {c}]
            /\ \A d \in Conns \ {c} : conns'[d] = conns[d]
            /\ UNCHANGED <<logQueue, queueKeys, pendingDeploymentLogs, storeOps, pc,
                           nextSeq, loggerVars, deployments, jobVars>>
     /\ \A j \in Jobs :
          (/\ nextSeq'[j] # nextSeq[j]
           /\ \E c \in Conns : conns[c].st = "aborted") =>
            \A d \in Conns :
              (conns[d].st = "open" /\ conns[d].job = toLowerCase(j)) =>
                LET fs == conns'[d].frames IN
                /\ Len(fs) = Len(conns[d].frames) + 1
                /\ fs[Len(fs)].kind = "log"
                /\ fs[Len(fs)].seq = nextSeq[j]]_vars

\* two clients subscribed before the first event; one of them received
\* event 1 and then disconnected, the other one has received event 2 since
C20_Witness ==
  \E j \in Jobs : \E b \in Conns : \E c \in Conns :
    /\ conns[b].st = "aborted" /\ conns[b].attach = 0
    /\ ~conns[b].writeFailed
    /\ \E i \in DOMAIN conns[b].frames : conns[b].frames[i].seq = 1
    /\ \A i \in DOMAIN conns[b].frames : conns[b].frames[i].seq # 2
    /\ conns[c].st = "open" /\ conns[c].attach = 0
    /\ c \in activeConnections[toLowerCase(j)]
    /\ \E i \in DOMAIN conns[c].frames :
         conns[c].frames[i].kind = "log" /\ conns[c].frames[i].seq = 2

\* C21: every log frame written to a subscriber is an event published for
\* the id the subscriber attached with (the queue of that id holds all of
\* them while fewer than 100 were published)
C21_OnlyOwnJobEvents ==
  \A c \in Conns :
    conns[c].st # "free" =>
      \A i \in DOMAIN conns[c].frames :
        conns[c].frames[i].kind = "log" =>
          \E k \in DOMAIN logQueue[conns[c].job] :
            DataFrame(logQueue[conns[c].job][k]) = conns[c].frames[i]

\* C22: a sweeper pass that found the record has persisted either none or
\* all of the pending events it handles
C22_SweepIsOneAppend ==
  \A p \in SweepIds :
    sweeps[p].st = "push" =>
      \/ sweeps[p].idx = 1
      \/ sweeps[p].idx > Len(sweeps[p].arr)

\* C23: a submission that was rejected before the task started has
\* recorded no event, queued nothing in the hub, made no directory and left
\* no record
C23_RejectionLeavesNoTrace ==
  \A j \in Jobs :
    pc[j] = "rejected" =>
      /\ nextSeq[j] = 1
      /\ logQueue[toLowerCase(j)] = <<>>
      /\ storeOps[j] = {} /\ pendingDeploymentLogs[j] = <<>>
      /\ ~tempDir[j]
      /\ ~deployments[j].exists

\* C24: a submission whose repository turned out to be inaccessible was
\* not answered with a deployment id
C24_BadRepositoryGetsNoId ==
  \A j \in Jobs :
    outcome[j].failed = "access" => response[j] # "deploymentId"

\* C25: a task that is in a stage has had its request answered with the
\* deployment id; and whatever the other task is doing, a request can
\* start, a started request with a valid submission can be answered, and a
\* task in a stage can end that stage
C25_ResponseWaitsForNoStage ==
  \A j \in JobIds :
    /\ pc[j] \in Range(Stages) => response[j] = "deploymentId"
    /\ pc[j] = "idle" => ENABLED Start(j)
    /\ pc[j] = "session" => ENABLED Accept(j)
    /\ pc[j] \in Range(Stages) =>
         ENABLED (StageOk(j, pc[j]) \/ StageFail(j, pc[j]) \/ PrepareThrows(j))

\* one request has been answered and its task has not ended its first
\* stage, while the task of the other request is at its upload
C25_Witness ==
  \E j \in JobIds : \E k \in JobIds :
    /\ pc[k] = "upload"
    /\ pc[j] = "access" /\ response[j] = "deploymentId"

\* the time of the job's second event, 'Deployment started', which is
\* logged when the task is started
StartedAt(j) == logQueue[toLowerCase(j)][2].ts.iso

\* milliseconds in one step of the clock when a task is timed
TickMs == UPLOAD_TIMEOUT_MS

\* C26: a task is not in a stage any more once it has run for longer than
\* the wall-clock budget
C26_BudgetEndsTheTask ==
  \A j \in Jobs :
    pc[j] \in Range(Stages) =>
      (now - StartedAt(j)) * TickMs <= UPLOAD_TIMEOUT_MS

\* C27: when the task has ended, the last wait for the pending logs came
\* after the last event of the job: it covered every event and nothing is
\* left in the logger's batch
C27_LastCallIsTheWait ==
  \A j \in Jobs :
    pc[j] = "done" =>
      /\ hist[j].waited = nextSeq[j] - 1
      /\ logBatch[j] = <<>>

\* C28: a record that is written with status success carries the content
\* id of the upload, and no stage of its job has failed before
C28_SuccessOnlyAfterCleanRun ==
  [][\A j \in Jobs :
       (/\ ~deployments[j].exists
        /\ deployments'[j].exists
        /\ deployments'[j].status = "success") =>
         /\ deployments'[j].cid = "cid"
         /\ outcome[j].failed = "none"]_vars

\* C29: for every limit, every entry of the persisted history of a job is
\* returned by the paged fetch on some page
C29_FetchReturnsPersisted ==
  \A j \in Jobs : \A limit \in 1..MaxLimit :
    LET logs == deployments[j].logs IN
    \A i \in DOMAIN logs :
      \E page \in 1..Len(logs) :
        LET got == FetchLogs(j, page, limit) IN
        \E k \in DOMAIN got :
          /\ got[k].type = logs[i].type
          /\ got[k].msg = logs[i].msg
          /\ got[k].ts = logs[i].ts

\* C30: every entry of the persisted history of a job is an event that the
\* job's logger has recorded
C30_HistoryIsLoggerOnly ==
  \A j \in Jobs :
    \A i \in DOMAIN deployments[j].logs :
      deployments[j].logs[i].seq \in 1..(nextSeq[j] - 1)

C32_PersistedAtMostOnce ==
  \A j \in Jobs :
    LET logs == deployments[j].logs IN
    \A i \in DOMAIN logs : \A k \in DOMAIN logs :
      logs[i].seq = logs[k].seq => i = k

\* C33: a completion event goes to the subscribers of a job only for an event
\* published when the job's record already existed: an event carrying a
\* terminal marker that was published while the job had no record yet never
\* produces the completion event or arms the forced close.
C33_CompletionOnlyForTerminalEvent ==
  [][\A j \in Jobs :
       (hist'[j].completionSent /\ ~hist[j].completionSent)
         => \A op \in storeOps[j] \ storeOps'[j] : ~op.early]_vars

\* C34: the log viewer passes success to onLogsComplete only after the task
\* has left its stages and its record save, that is after the pipeline's
\* terminal event; and after a report of success it never reports failure.
Running(j) == pc[j] \in Range(Stages) \cup {"save", "terminal"}

C34_ReportsOnlyAtTheEnd ==
  \A c \in Conns :
    LET r == conns[c].client.reports IN
    /\ (\E i \in DOMAIN r : r[i]) => ~Running(conns[c].job)
    /\ \A i, k \in DOMAIN r : i < k /\ r[i] => r[k]

\* C35: the collection never holds more than one record of a job id,
\* whichever way the task runs: the success save, the failed save of the
\* catch, a save that throws, a fault that nothing catches.
C35_OneRecordPerJob ==
  \A j \in Jobs : deployments[j].copies <= 1

\* the success save threw and the catch saved the failed record, once
C35_Witness ==
  \E j \in Jobs :
    /\ pc[j] = "done"
    /\ outcome[j].failed = "none"
    /\ deployments[j].status = "failed"
    /\ deployments[j].copies = 1

\* C36: an event that was added to a job's pending set is never lost: a
\* sweeper pass has stored it, or it is in the job's pending entry, or a
\* pass that is under way still has it ahead in the array it walks.
Seqs(logs) == {logs[i].seq : i \in DOMAIN logs}

C36_PendingNeverLost ==
  \A j \in Jobs : \A n \in hist[j].everPending :
    \/ n \in hist[j].swept
    \/ n \in Seqs(pendingDeploymentLogs[j])
    \/ \E p \in SweepIds :
         /\ sweeps[p].st # "idle" /\ sweeps[p].job = j
         /\ \E i \in sweeps[p].idx..Len(sweeps[p].arr) : sweeps[p].arr[i].seq = n

\* C37: when a store operation of a pass fails on a job, every pending
\* entry, that job's included, is as it was, and the same pass goes on to an
\* entry it has not visited whenever one holds events.
C37_SweepFailureContained ==
  [][\A p \in SweepIds : \A j \in JobIds :
       (sweeps[p].job = j /\ hist'[j].sweepFails = hist[j].sweepFails + 1)
         => /\ pendingDeploymentLogs' = pendingDeploymentLogs
            /\ \A k \in JobIds :
                 (k \notin sweeps[p].seen /\ Len(pendingDeploymentLogs[k]) > 0)
                   => sweeps'[p].st = "find" /\ sweeps'[p].job # j]_vars

\* after a failure on one job the same pass has stored an event of the
\* other, and the first job's entry is still there for the next pass
C37_Witness ==
  \E p \in SweepIds : \E j, k \in JobIds :
    /\ j # k
    /\ hist[j].sweepFails = 1
    /\ Len(pendingDeploymentLogs[j]) > 0
    /\ sweeps[p].seen = {j, k}
    /\ sweeps[p].job = k /\ sweeps[p].st = "push" /\ sweeps[p].idx > 1
    /\ hist[k].sweepFails = 0

\* C38: between the logger's operations the batch of a job holds fewer than
\* batchSize events and the flush timer is armed exactly when the batch is
\* not empty; a step that flushes, by the timer or by the size of the batch,
\* leaves the batch empty and no timer armed.
C38_BatchAndTimer ==
  /\ [](\A j \in Jobs :
          /\ Len(logBatch[j]) < batchSize
          /\ batchTimeout[j] <=> logBatch[j] # <<>>)
  /\ [][\A j \in Jobs :
          (\E b \in pendingLogs'[j] : b \notin pendingLogs[j])
            => logBatch'[j] = <<>> /\ ~batchTimeout'[j]]_vars

\* a batch went out at batchSize, another by the timer, and the event
\* logged since then is in the batch with the timer armed
C38_Witness ==
  \E j \in Jobs :
    /\ \E b \in pendingLogs[j] : Len(b.logs) = batchSize
    /\ hist[j].timerFires = 1
    /\ Len(logBatch[j]) = 1 /\ batchTimeout[j]

\* C39: right after a batch write of the logger on a job's record, the
\* history is the end of what it held followed by the batch, in that order,
\* and holds SliceKeep entries when that is longer, all of it otherwise.
C39_BatchWriteKeepsNewest ==
  [][\A j \in Jobs : \A op \in pendingLogs[j] :
       (op \notin pendingLogs'[j] /\ deployments[j].exists)
         => LET all == deployments[j].logs \o op.logs
                got == deployments'[j].logs
            IN /\ Len(got) = Min(Len(all), SliceKeep)
               /\ \A i \in DOMAIN got : got[i] = all[Len(all) - Len(got) + i]]_vars

\* a batch of two events was written to a history one short of the limit:
\* the first posted entry is gone and the two events are the last entries
C39_Witness ==
  \E j \in Jobs :
    LET logs == deployments[j].logs IN
    /\ Len(logs) = SliceKeep
    /\ logs[SliceKeep].seq = 2 /\ logs[SliceKeep - 1].seq = 1
    /\ \A i \in 1..(SliceKeep - 2) :
         logs[i].seq = 0 /\ logs[i].type = PostedType(i + 1)

TypeOK ==
  /\ now \in 0..MaxClock
  /\ \A j \in Jobs : nextSeq[j] \in Nat

====
